---- MODULE Spec2Model ----
(***************************************************************************)
(* Model of src/lib/RancherAPI.js: the in-service upgrade session          *)
(* (inServiceUpgrade => waitForUpgrade => waitForActive) of class          *)
(* RancherAPI, its service lookup (getService) and its API client wrapper  *)
(* (_apiRequest), run against a control plane whose replies are chosen     *)
(* nondeterministically and a wall clock that advances while a call is in  *)
(* flight or a DELAY timer is pending.                                     *)
(*                                                                         *)
(* JavaScript objects are functions from the keys that are present to      *)
(* their values: a key is absent when it is not in the DOMAIN.  Strings    *)
(* are TLA+ strings, concatenated with \o.  Time is counted in abstract    *)
(* units; Date.now() is the variable now.                                  *)
(***************************************************************************)
EXTENDS Integers, Sequences, FiniteSets, TLC

VARIABLES
    now,        \* Date.now(): the wall clock
    config,     \* this.options of the RancherAPI instance (lines 31-37)
    directory,  \* what the control plane stores for the service name
    ses         \* one record per running call of inServiceUpgrade

vars == <<now, config, directory, ses>>

-----------------------------------------------------------------------------
(* Bounds of the model *)

\* largest statusCheckFrequency (poll interval) an instance is configured with
MaxFreq == 2
\* largest serviceUpgradedTimeout / serviceActiveTimeout an instance is configured with
MaxTimeout == 3
\* the clock stops advancing here unless a DELAY timer is still pending
MaxTime == 6

-----------------------------------------------------------------------------
(* JavaScript values *)

\* the value undefined
Undefined == [type |-> "undefined"]

\* the object literal {}
EmptyObject == <<>>

\* o.k is present
Has(o, k) == k \in DOMAIN o

\* truthiness of a string-valued property o.k: absent (undefined) and "" are falsy
Truthy(o, k) == Has(o, k) /\ o[k] # ""

\* ObjectAssign in which the keys already in target keep their values
ObjectAssign_TargetWins(target, source) == target @@ source

\* Object.assign(target, source): the keys of source overwrite those of target
ObjectAssign(target, source) == source @@ target

\* o with o.k = v assigned
SetKey(o, k, v) == (k :> v) @@ o

-----------------------------------------------------------------------------
(* Program constants *)

\* default of options.batchSize
DefaultBatchSize == 1
\* default of options.intervalMillis, 30*1000
DefaultIntervalMillis == 30000

\* the rejection values the code produces
MsgNoServiceName == "Must specify options.serviceName"
MsgNoImageRepo == "Must specify options.imageRepo"
MsgNotFound == "getService: Rancher service not found."
MsgNotActive(state) == "Service is not in active status. (" \o state \o "). Cannot proceed."
MsgUpgradeTimeout == "Timeout waiting for service to upgrade. Upgrade failed!"
MsgActiveTimeout == "Timeout waiting for service to activate. Upgrade failed!"
MsgUnexpected(state) == "unexpected status (" \o state \o ") when waiting for upgrade to complete."
\* a TypeError thrown inside a then-callback (undefined.match, undefined.state)
TypeError == "TypeError"

-----------------------------------------------------------------------------
(* The caller's upgrade requests *)

\* either no key, or the key k with a value of S
OptionalField(k, S) == {EmptyObject} \cup {(k :> v) : v \in S}

\* request objects: every optional key absent or present, falsy values included
Requests ==
    { a @@ b @@ c @@ d @@ e @@ f @@ g :
        a \in OptionalField("serviceName", {"", "web"}),
        b \in OptionalField("imageRepo", {"", "org/app"}),
        c \in OptionalField("imageTag", {"", "v2"}),
        d \in OptionalField("environment", {[B |-> 3, C |-> 4]}),
        e \in OptionalField("batchSize", {0}),
        f \in OptionalField("intervalMillis", {0}),
        g \in OptionalField("startFirst", {FALSE}) }

\* the end-to-end request of the documentation
WebRequest == [serviceName |-> "web", imageRepo |-> "org/app", imageTag |-> "v2"]

\* the requests of the timing specification: one that is valid, and the
\* ways of failing validation (no argument, {}, a key missing, a key empty)
FewRequests ==
    { Undefined, EmptyObject, WebRequest,
      [serviceName |-> "web"], [imageRepo |-> "org/app"],
      [serviceName |-> "", imageRepo |-> "org/app"],
      [serviceName |-> "web", imageRepo |-> ""] }

-----------------------------------------------------------------------------
(* The control plane: service descriptors and replies *)

States == {"active", "upgrading", "upgraded", "rolling-back"}

\* svc.actions: a key is present when the action is legal
ActionMaps ==
    { a @@ b :
        a \in OptionalField("upgrade", {"https://rancher/1s1/?action=upgrade"}),
        b \in OptionalField("finishupgrade", {"https://rancher/1s1/?action=finishupgrade"}) }

\* what the directory can store for a service
LaunchConfigs ==
    { [imageUuid |-> "docker:org/app:v1"],
      [imageUuid |-> "docker:org/app:v1", environment |-> [A |-> 1, B |-> 2]] }

Directories ==
    [launchConfig : LaunchConfigs, secondaryLaunchConfigs : {<<>>, <<[imageUuid |-> "docker:org/sidekick:v1"]>>}]

Descriptor(id, name, state, actions) ==
    [id |-> id, name |-> name, state |-> state, actions |-> actions,
     launchConfig |-> directory.launchConfig,
     secondaryLaunchConfigs |-> directory.secondaryLaunchConfigs]

\* the first match of a query, and a second service of the same name
FirstMatches(name) == {Descriptor("1s1", name, st, am) : st \in States, am \in ActionMaps}
OtherMatches(name) == {Descriptor("1s2", name, st, EmptyObject) : st \in {"active", "rolling-back"}}

\* bodies of GET services?name=<name>: no data, no match, one match, two
GetBodies(name) ==
    {EmptyObject, [data |-> <<>>]}
        \cup {[data |-> <<d>>] : d \in FirstMatches(name)}
        \cup {[data |-> <<d, x>>] : d \in FirstMatches(name), x \in OtherMatches(name)}

\* body of a POST to an action URL: the service as updated by the action
PostBodies == {[state |-> "upgrading"]}

\* the outcome of request(requestOptions): not yet there, rejected, fulfilled
NoReply == [arrived |-> FALSE]
Failure == [arrived |-> TRUE, ok |-> FALSE]
Success(body) == [arrived |-> TRUE, ok |-> TRUE, body |-> body]

-----------------------------------------------------------------------------
(* Promises *)

Pending == [status |-> "pending"]
Rejected(reason) == [status |-> "rejected", reason |-> reason]
Resolved(value) == [status |-> "resolved", value |-> value]

\* ERROR whose rejection is produced while the flow of the session goes on
ERROR_GoesOn(r, msg) == [r EXCEPT !.outcome = Rejected(msg)]

\* ERROR(msg): logs and returns Promise.reject(msg); the session ends
ERROR(r, msg) == [r EXCEPT !.pc = "settled", !.reply = NoReply, !.outcome = Rejected(msg)]

\* an exception thrown inside a then-callback rejects the chain
Throw(r, e) == [r EXCEPT !.pc = "settled", !.reply = NoReply, !.outcome = Rejected(e)]

\* the chain is fulfilled with value
Return(r, value) == [r EXCEPT !.pc = "settled", !.reply = NoReply, !.outcome = Resolved(value)]

\* DELAY that passes no time to setTimeout: the timer is due at once
DELAY_NoTime(r, time, label) == [r EXCEPT !.pc = label, !.reply = NoReply, !.wakeAt = now]

\* DELAY whose promise is never fulfilled: no timer is armed
DELAY_NeverFulfils(r, time, label) == [r EXCEPT !.pc = "hung", !.reply = NoReply]

\* DELAY(time): a timer due at Date.now() + time
DELAY(r, time, label) == [r EXCEPT !.pc = label, !.reply = NoReply, !.wakeAt = now + time]

-----------------------------------------------------------------------------
(* class RancherAPI *)

\* _apiRequest: what its promise is fulfilled with.  The catch handler returns
\* the value of console.log, so a rejected request is fulfilled with undefined.
apiRequest(reply) == IF reply.ok THEN reply.body ELSE Undefined

\* PathThrows of an _apiRequest that sends the request whatever the path is
PathThrows_Never(svc, key) == FALSE

\* path.match(...) in _apiRequest throws a TypeError when the path, the action
\* reference svc.actions[key], is undefined
PathThrows(svc, key) == ~Has(svc.actions, key)

\* svc.actions[key], undefined when the key is absent
ActionRef(svc, key) == IF Has(svc.actions, key) THEN svc.actions[key] ELSE Undefined

\* get('services', {name}): one GET is issued and awaited at label
get(r, label) ==
    [r EXCEPT !.pc = label, !.reply = NoReply, !.polls = @ + 1,
              !.calls = [@ EXCEPT !.GET = @ + 1]]

\* post that sends the request a second time
post_Twice(r, kind, path, params, label) ==
    [r EXCEPT !.pc = label, !.reply = NoReply,
              !.calls = [@ EXCEPT ![kind] = @ + 2],
              !.sent = IF kind = "upgrade"
                       THEN @ \o <<[path |-> path, body |-> params], [path |-> path, body |-> params]>>
                       ELSE @]

\* post(path, params): one POST of the given kind is issued and awaited at label
post(r, kind, path, params, label) ==
    [r EXCEPT !.pc = label, !.reply = NoReply,
              !.calls = [@ EXCEPT ![kind] = @ + 1],
              !.sent = IF kind = "upgrade" THEN Append(@, [path |-> path, body |-> params]) ELSE @]

\* getService that takes the last match of result.data
getService_LastMatch(result) ==
    IF result = Undefined \/ ~Has(result, "data") \/ Len(result.data) = 0
    THEN Rejected(MsgNotFound)
    ELSE Resolved(result.data[Len(result.data)])

\* the then-callback of getService: not found unless result.data has an element
getService(result) ==
    IF result = Undefined \/ ~Has(result, "data") \/ Len(result.data) = 0
    THEN Rejected(MsgNotFound)
    ELSE Resolved(result.data[1])

\* ValidationError without the test of options.imageRepo
ValidationError_NoRepoTest(options) ==
    IF ~Truthy(options, "serviceName") THEN MsgNoServiceName ELSE ""

\* options validation: the message of the rejection, "" when options pass
ValidationError(options) ==
    IF ~Truthy(options, "serviceName") THEN MsgNoServiceName
    ELSE IF ~Truthy(options, "imageRepo") THEN MsgNoImageRepo
    ELSE ""

\* WithDefaults written with "||": a falsy value is replaced by the default
WithDefaults_OrDefault(options) ==
    LET o1 == SetKey(options, "environment",
                     IF Has(options, "environment") THEN options.environment ELSE EmptyObject)
        o2 == IF Has(o1, "batchSize") /\ o1.batchSize # 0
              THEN o1 ELSE SetKey(o1, "batchSize", DefaultBatchSize)
        o3 == IF Has(o2, "intervalMillis") /\ o2.intervalMillis # 0
              THEN o2 ELSE SetKey(o2, "intervalMillis", DefaultIntervalMillis)
    IN  IF Has(o3, "startFirst") /\ o3.startFirst THEN o3 ELSE SetKey(o3, "startFirst", TRUE)

\* the defaults inServiceUpgrade writes into options
WithDefaults(options) ==
    LET o1 == SetKey(options, "environment",
                     IF Has(options, "environment") THEN options.environment ELSE EmptyObject)
        o2 == IF Has(o1, "batchSize") THEN o1 ELSE SetKey(o1, "batchSize", DefaultBatchSize)
        o3 == IF Has(o2, "intervalMillis") THEN o2 ELSE SetKey(o2, "intervalMillis", DefaultIntervalMillis)
    IN  IF Has(o3, "startFirst") THEN o3 ELSE SetKey(o3, "startFirst", TRUE)

\* ImageUuid that appends the tag without the ":" between repo and tag
ImageUuid_NoSeparator(options) ==
    LET uuid == "docker:" \o options.imageRepo
    IN  IF Truthy(options, "imageTag") THEN uuid \o options.imageTag ELSE uuid

\* the image uuid inServiceUpgrade computes
ImageUuid(options) ==
    LET uuid == "docker:" \o options.imageRepo
    IN  IF Truthy(options, "imageTag") THEN uuid \o ":" \o options.imageTag ELSE uuid

\* svc.launchConfig after the image uuid and the environment are written
LaunchConfig(svc, options) ==
    LET lc == SetKey(svc.launchConfig, "imageUuid", ImageUuid(options))
        env == IF Has(lc, "environment") THEN lc.environment ELSE EmptyObject
    IN  SetKey(lc, "environment", ObjectAssign(env, options.environment))

\* the body of the upgrade POST
UpgradeParams(svc, options) ==
    [inServiceStrategy |->
        [batchSize |-> options.batchSize,
         intervalMillis |-> options.intervalMillis,
         startFirst |-> options.startFirst,
         launchConfig |-> LaunchConfig(svc, options),
         secondaryLaunchConfigs |-> svc.secondaryLaunchConfigs]]

\* CannotProceed that refuses every service that is not active
CannotProceed_Strict(svc) == svc.state # "active"

\* the service may not be upgraded: not active and no upgrade action
CannotProceed(svc) == svc.state # "active" /\ ~Truthy(svc.actions, "upgrade")

\* UpgradePhase that keeps waiting when the service is upgraded
UpgradePhase_NeverFinish(svc) ==
    IF svc.state \in {"upgrading", "upgraded"} THEN "wait" ELSE "abort"

\* UpgradePhase that aborts on no state: whatever is not upgraded is waited for
UpgradePhase_UnknownWaits(svc) ==
    IF svc.state = "upgraded" THEN "finish" ELSE "wait"

\* what waitForUpgrade does with the state it observes
UpgradePhase(svc) ==
    IF svc.state = "upgrading" THEN "wait"
    ELSE IF svc.state = "upgraded" THEN "finish"
    ELSE "abort"

\* ActivePhase that takes an upgraded service for an active one
ActivePhase_UpgradedIsDone(svc) ==
    IF svc.state \notin {"active", "upgraded"} THEN "wait" ELSE "done"

\* ActivePhase that waits only while the service is upgrading
ActivePhase_OnlyUpgradingWaits(svc) == IF svc.state = "upgrading" THEN "wait" ELSE "done"

\* what waitForActive does with the state it observes
ActivePhase(svc) == IF svc.state # "active" THEN "wait" ELSE "done"

\* TimedOut with the deadline one unit late
TimedOut_OffByOne(startTime, timeout) == startTime + timeout + 1 < now

\* the deadline test of the wait phases
TimedOut(startTime, timeout) == startTime + timeout < now

\* StartTime that reads the clock on every call
StartTime_AlwaysNow(startTime) == now

\* startTime = startTime || Date.now(); 0 stands for an argument not passed
StartTime(startTime) == IF startTime = 0 THEN now ELSE startTime

\* a wait phase is entered (no startTime passed): its counters start afresh
Enter(r, startTime) ==
    IF startTime = 0
    THEN [r EXCEPT !.polls = 0, !.overrun = 0, !.startTime = StartTime(startTime)]
    ELSE [r EXCEPT !.startTime = StartTime(startTime)]

\* waitForUpgrade(serviceName, startTime), up to the GET it issues
waitForUpgrade(r, startTime) ==
    IF TimedOut(StartTime(startTime), config.serviceUpgradedTimeout)
    THEN ERROR(Enter(r, startTime), MsgUpgradeTimeout)
    ELSE get(Enter(r, startTime), "upgradePoll")

\* waitForActive(serviceName, startTime), up to the GET it issues
waitForActive(r, startTime) ==
    IF TimedOut(StartTime(startTime), config.serviceActiveTimeout)
    THEN ERROR(Enter(r, startTime), MsgActiveTimeout)
    ELSE get(Enter(r, startTime), "activePoll")

-----------------------------------------------------------------------------
(* State *)

Sessions == DOMAIN ses

\* a call of inServiceUpgrade(arg) that has not run yet
NewSession(arg) ==
    [pc |-> "start",
     request |-> arg,       \* the argument as the caller passed it
     options |-> arg,       \* the object the variable options refers to
     reply |-> NoReply,     \* the outcome of the request in flight
     startTime |-> 0,       \* startTime of the wait phase
     wakeAt |-> 0,          \* when the DELAY timer is due
     polls |-> 0,           \* GETs issued since the wait phase was entered
     overrun |-> 0,         \* time of the phase spent awaiting replies and late timers
     calls |-> [GET |-> 0, upgrade |-> 0, finishupgrade |-> 0],
     sent |-> <<>>,         \* the upgrade POSTs issued
     outcome |-> Pending]   \* the promise inServiceUpgrade returned

Configs ==
    [statusCheckFrequency : 1..MaxFreq,
     serviceUpgradedTimeout : 0..MaxTimeout,
     serviceActiveTimeout : 0..MaxTimeout]

\* a request is in flight at these positions
Awaiting == {"fetch", "submit", "upgradePoll", "finish", "activePoll"}
\* a DELAY timer is pending at these
Delaying == {"upgradeDelay", "activeDelay"}

Init ==
    /\ now = 1
    /\ config \in Configs
    /\ directory = [launchConfig |-> [imageUuid |-> "docker:org/app:v1", environment |-> [A |-> 1, B |-> 2]],
                    secondaryLaunchConfigs |-> <<>>]
    /\ \E arg \in FewRequests : ses = (1 :> NewSession(arg))

-----------------------------------------------------------------------------
(* Actions *)

\* inServiceUpgrade(options), lines 109-124: validation, defaults, first lookup
inServiceUpgrade(s) ==
    /\ ses[s].pc = "start"
    /\ LET r == ses[s]
           options == IF r.options = Undefined THEN EmptyObject ELSE r.options
       IN  ses' = [ses EXCEPT ![s] =
                IF ValidationError(options) # ""
                    THEN ERROR([r EXCEPT !.options = options], ValidationError(options))
                ELSE get([r EXCEPT !.options = WithDefaults(options)], "fetch")]
    /\ UNCHANGED <<now, config, directory>>

\* then-callback of the first lookup, lines 124-152
inServiceUpgrade_gotService(s) ==
    /\ ses[s].pc = "fetch"
    /\ ses[s].reply.arrived
    /\ LET r == ses[s]
           found == getService(apiRequest(r.reply))
           svc == found.value
       IN  ses' = [ses EXCEPT ![s] =
                IF found.status = "rejected" THEN ERROR(r, found.reason)
                ELSE IF CannotProceed(svc) THEN ERROR(r, MsgNotActive(svc.state))
                ELSE IF PathThrows(svc, "upgrade") THEN Throw(r, TypeError)
                ELSE post(r, "upgrade", ActionRef(svc, "upgrade"), UpgradeParams(svc, r.options), "submit")]
    /\ UNCHANGED <<now, config, directory>>

\* then-callback of the upgrade POST, lines 153-156
inServiceUpgrade_posted(s) ==
    /\ ses[s].pc = "submit"
    /\ ses[s].reply.arrived
    /\ LET r == ses[s]
           result == apiRequest(r.reply)
       IN  ses' = [ses EXCEPT ![s] =
                IF result = Undefined THEN Throw(r, TypeError)
                ELSE waitForUpgrade(r, 0)]
    /\ UNCHANGED <<now, config, directory>>

\* then-callback of a lookup of waitForUpgrade, lines 173-191
waitForUpgrade_gotService(s) ==
    /\ ses[s].pc = "upgradePoll"
    /\ ses[s].reply.arrived
    /\ LET r == ses[s]
           found == getService(apiRequest(r.reply))
           svc == found.value
       IN  ses' = [ses EXCEPT ![s] =
                IF found.status = "rejected" THEN ERROR(r, found.reason)
                ELSE IF UpgradePhase(svc) = "wait"
                    THEN DELAY(r, config.statusCheckFrequency, "upgradeDelay")
                ELSE IF UpgradePhase(svc) = "finish"
                    THEN IF PathThrows(svc, "finishupgrade")
                         THEN Throw(r, TypeError)
                         ELSE post(r, "finishupgrade", ActionRef(svc, "finishupgrade"), EmptyObject, "finish")
                ELSE ERROR(r, MsgUnexpected(svc.state))]
    /\ UNCHANGED <<now, config, directory>>

\* waitForUpgrade_delayed with one startTime for all sessions: the latest
LatestStartTime ==
    CHOOSE t \in {ses[x].startTime : x \in Sessions} :
        \A x \in Sessions : ses[x].startTime <= t
waitForUpgrade_delayed_SharedStartTime(s) ==
    /\ ses[s].pc = "upgradeDelay"
    /\ now >= ses[s].wakeAt
    /\ ses' = [ses EXCEPT ![s] = waitForUpgrade(ses[s], LatestStartTime)]
    /\ UNCHANGED <<now, config, directory>>

\* the DELAY of waitForUpgrade is over, lines 176-178
waitForUpgrade_delayed(s) ==
    /\ ses[s].pc = "upgradeDelay"
    /\ now >= ses[s].wakeAt
    /\ ses' = [ses EXCEPT ![s] = waitForUpgrade(ses[s], ses[s].startTime)]
    /\ UNCHANGED <<now, config, directory>>

\* then-callback of the finishupgrade POST, lines 182-186
waitForUpgrade_finished(s) ==
    /\ ses[s].pc = "finish"
    /\ ses[s].reply.arrived
    /\ ses' = [ses EXCEPT ![s] = waitForActive(ses[s], 0)]
    /\ UNCHANGED <<now, config, directory>>

\* then-callback of a lookup of waitForActive, lines 209-219
waitForActive_gotService(s) ==
    /\ ses[s].pc = "activePoll"
    /\ ses[s].reply.arrived
    /\ LET r == ses[s]
           found == getService(apiRequest(r.reply))
           svc == found.value
       IN  ses' = [ses EXCEPT ![s] =
                IF found.status = "rejected" THEN ERROR(r, found.reason)
                ELSE IF ActivePhase(svc) = "wait"
                    THEN DELAY(r, config.statusCheckFrequency, "activeDelay")
                ELSE Return(r, svc)]
    /\ UNCHANGED <<now, config, directory>>

\* the DELAY of waitForActive is over, lines 212-214
waitForActive_delayed(s) ==
    /\ ses[s].pc = "activeDelay"
    /\ now >= ses[s].wakeAt
    /\ ses' = [ses EXCEPT ![s] = waitForActive(ses[s], ses[s].startTime)]
    /\ UNCHANGED <<now, config, directory>>

\* the request in flight completes: rejected, or fulfilled with a body
Reply(s) ==
    /\ ses[s].pc \in Awaiting
    /\ ~ses[s].reply.arrived
    /\ \E reply \in {Failure} \cup
            {Success(b) : b \in IF ses[s].pc \in {"submit", "finish"}
                                THEN PostBodies
                                ELSE GetBodies(ses[s].options.serviceName)} :
          ses' = [ses EXCEPT ![s].reply = reply]
    /\ UNCHANGED <<now, config, directory>>

\* time passes while a request is in flight or a timer is pending
Tick ==
    /\ \E s \in Sessions : ses[s].pc \in Awaiting \cup Delaying
    /\ \/ now < MaxTime
       \/ \E s \in Sessions : ses[s].pc \in Delaying /\ now < ses[s].wakeAt
    /\ now' = now + 1
    /\ ses' = [s \in Sessions |->
                IF \/ ses[s].pc \in Awaiting
                   \/ ses[s].pc \in Delaying /\ now >= ses[s].wakeAt
                THEN [ses[s] EXCEPT !.overrun = @ + 1]
                ELSE ses[s]]
    /\ UNCHANGED <<config, directory>>

Next ==
    \/ \E s \in Sessions : inServiceUpgrade(s)
    \/ \E s \in Sessions : inServiceUpgrade_gotService(s)
    \/ \E s \in Sessions : inServiceUpgrade_posted(s)
    \/ \E s \in Sessions : waitForUpgrade_gotService(s)
    \/ \E s \in Sessions : waitForUpgrade_delayed(s)
    \/ \E s \in Sessions : waitForUpgrade_finished(s)
    \/ \E s \in Sessions : waitForActive_gotService(s)
    \/ \E s \in Sessions : waitForActive_delayed(s)
    \/ \E s \in Sessions : Reply(s)
    \/ Tick

Spec == Init /\ [][Next]_vars

\* the same program on every request and directory entry, under one
\* configuration and with the clock at MaxTime when the call is made: replies
\* come at once and time passes only while a DELAY timer is pending
InitRequests ==
    /\ now = MaxTime
    /\ config = [statusCheckFrequency |-> 1, serviceUpgradedTimeout |-> 1, serviceActiveTimeout |-> 1]
    /\ directory \in Directories
    /\ \E arg \in {Undefined} \cup Requests : ses = (1 :> NewSession(arg))

SpecRequests == InitRequests /\ [][Next]_vars

-----------------------------------------------------------------------------
(* Vocabulary of the properties *)

Succeeded(r) == r.pc = "settled" /\ r.outcome.status = "resolved"
Failed(r) == r.pc = "settled" /\ r.outcome.status = "rejected"
FailedWith(r, msg) == Failed(r) /\ r.outcome.reason = msg

\* no GET and no POST was issued
NoCalls(r) == r.calls = [GET |-> 0, upgrade |-> 0, finishupgrade |-> 0]

\* the step runs the then-callback that awaits the reply of session s
Handles(s) == ses[s].reply.arrived /\ ~ses'[s].reply.arrived

\* the reply carries at least one match, and its first match
Found(reply) == reply.ok /\ Has(reply.body, "data") /\ Len(reply.body.data) > 0
First(reply) == reply.body.data[1]

\* the request as passed lacks serviceName or imageRepo, or there is none
Missing(request) ==
    \/ request = Undefined
    \/ ~Has(request, "serviceName")
    \/ ~Has(request, "imageRepo")

-----------------------------------------------------------------------------
(* C1 *)

\* C1: for every request in which serviceName or imageRepo is missing (or no
\* request is passed), once inServiceUpgrade has run the session has failed
\* with one of the two validation messages and has issued no GET and no POST.
C1_ValidationBeforeAnyCall ==
    \A s \in Sessions :
        (Missing(ses[s].request) /\ ses[s].pc # "start") =>
            /\ \/ FailedWith(ses[s], MsgNoServiceName)
               \/ FailedWith(ses[s], MsgNoImageRepo)
            /\ NoCalls(ses[s])

\* a request with a serviceName but no imageRepo has been rejected
C1_Witness ==
    \E s \in Sessions :
        /\ ses[s].request # Undefined
        /\ Has(ses[s].request, "serviceName") /\ ses[s].request.serviceName = "web"
        /\ ~Has(ses[s].request, "imageRepo")
        /\ FailedWith(ses[s], MsgNoImageRepo)

-----------------------------------------------------------------------------
(* C2 *)

\* C2: the step in which a session succeeds is the then-callback of a lookup
\* of waitForActive; the descriptor it returns is the first match of that
\* lookup's reply and has state "active"; the session has then issued exactly
\* one upgrade POST and exactly one finishupgrade POST; and a finishupgrade
\* POST is only ever issued when the one upgrade POST has been issued before.
C2_SuccessShape ==
    [][\A s \in Sessions :
        /\ (Succeeded(ses'[s]) /\ ~Succeeded(ses[s])) =>
              /\ ses[s].pc = "activePoll"
              /\ ses[s].reply.arrived /\ Found(ses[s].reply)
              /\ ses'[s].outcome.value = First(ses[s].reply)
              /\ ses'[s].outcome.value.state = "active"
              /\ ses'[s].calls.upgrade = 1 /\ Len(ses'[s].sent) = 1
              /\ ses'[s].calls.finishupgrade = 1
        /\ (ses'[s].calls.finishupgrade # ses[s].calls.finishupgrade) =>
              /\ ses[s].calls.upgrade = 1 /\ ses'[s].calls.upgrade = 1
              /\ ses[s].calls.finishupgrade = 0
    ]_vars

\* a session has succeeded after a wait-for-active phase of several polls
C2_Witness ==
    \E s \in Sessions :
        Succeeded(ses[s]) /\ ses[s].polls >= 2 /\ ses[s].calls.finishupgrade = 1

-----------------------------------------------------------------------------
(* C3 *)

\* the then-callback of a waitForUpgrade lookup runs on a reply whose first
\* match is "upgraded"
C3_ObservesUpgraded(s) ==
    /\ ses[s].pc = "upgradePoll"
    /\ Handles(s)
    /\ Found(ses[s].reply)
    /\ First(ses[s].reply).state = "upgraded"

\* the step issues the session's one finishupgrade POST
C3_IssuesFinish(s) ==
    /\ ses[s].calls.finishupgrade = 0
    /\ ses'[s].calls.finishupgrade = 1
    /\ ses'[s].pc = "finish"

\* a finishupgrade POST is issued only by the callback that observed
\* "upgraded", and when it returns the wait-for-active phase is entered
C3_OnlyThenAndOnward(s) ==
    /\ (ses'[s].calls.finishupgrade # ses[s].calls.finishupgrade) =>
            C3_ObservesUpgraded(s) /\ C3_IssuesFinish(s)
    /\ (ses[s].pc = "finish" /\ Handles(s)) =>
            /\ ses'[s].pc = "activePoll"
            /\ ses'[s].polls = 1 /\ ses'[s].startTime = now
            /\ ses'[s].calls.finishupgrade = 1

-----------------------------------------------------------------------------
(* C4 *)

\* C4: when the then-callback of a waitForUpgrade lookup observes a state
\* other than "upgrading" and "upgraded" ("active" included), the session
\* ends in that step with the unexpected-status failure that carries the
\* observed state, issuing no call; and a session that has ended never
\* changes again, so no finishupgrade POST and no GET follows.
C4_UnexpectedStateStops ==
    [][\A s \in Sessions :
        /\ ( /\ ses[s].pc = "upgradePoll"
             /\ Handles(s)
             /\ Found(ses[s].reply)
             /\ First(ses[s].reply).state \notin {"upgrading", "upgraded"} ) =>
                /\ FailedWith(ses'[s], MsgUnexpected(First(ses[s].reply).state))
                /\ ses'[s].calls = ses[s].calls
        /\ ses[s].pc = "settled" => ses'[s] = ses[s]
    ]_vars

\* a session has ended on observing "active" while waiting for the upgrade
C4_Witness ==
    \E s \in Sessions :
        /\ FailedWith(ses[s], MsgUnexpected("active"))
        /\ ses[s].calls.finishupgrade = 0
        /\ ses[s].polls >= 2

-----------------------------------------------------------------------------
(* C5 *)

\* the timeout and the timeout message of the phase a position belongs to
PhaseTimeout(pc) ==
    IF pc \in {"upgradePoll", "upgradeDelay"}
    THEN config.serviceUpgradedTimeout ELSE config.serviceActiveTimeout
PhaseTimeoutMsg(pc) ==
    IF pc \in {"upgradePoll", "upgradeDelay"} THEN MsgUpgradeTimeout ELSE MsgActiveTimeout

\* C5: in both wait phases, a step that issues a poll GET is taken only when
\* the current time does not exceed the phase's start time plus its timeout;
\* and when a DELAY is over with the current time beyond that deadline, the
\* session fails with the phase's timeout message and issues no GET.
C5_DeadlineBeforeEveryPoll ==
    [][\A s \in Sessions :
        /\ ( /\ ses'[s].pc \in {"upgradePoll", "activePoll"}
             /\ ses'[s].calls.GET # ses[s].calls.GET ) =>
                now <= ses'[s].startTime + PhaseTimeout(ses'[s].pc)
        /\ ( /\ ses[s].pc \in Delaying
             /\ ses'[s].pc # ses[s].pc
             /\ now > ses[s].startTime + PhaseTimeout(ses[s].pc) ) =>
                /\ FailedWith(ses'[s], PhaseTimeoutMsg(ses[s].pc))
                /\ ses'[s].calls = ses[s].calls
    ]_vars

\* the wait-for-active phase has timed out after more than one poll
C5_Witness ==
    \E s \in Sessions :
        /\ FailedWith(ses[s], MsgActiveTimeout)
        /\ ses[s].polls >= 2
        /\ now > ses[s].startTime + config.serviceActiveTimeout

-----------------------------------------------------------------------------
(* C6 *)

\* the timeout and the poll interval in force when session r timed out
TimedOutPhase(r) == FailedWith(r, MsgUpgradeTimeout) \/ FailedWith(r, MsgActiveTimeout)
Budget(r) ==
    IF FailedWith(r, MsgUpgradeTimeout)
    THEN config.serviceUpgradedTimeout ELSE config.serviceActiveTimeout
Interval == config.statusCheckFrequency

\* C6 as claimed: a wait phase that ends in a timeout (every one of its
\* polls reported not-yet) has made floor(timeout / statusCheckFrequency)
\* polls, give or take one.
C6_Original ==
    \A s \in Sessions :
        TimedOutPhase(ses[s]) =>
            /\ ses[s].polls >= (Budget(ses[s]) \div Interval) - 1
            /\ ses[s].polls <= (Budget(ses[s]) \div Interval) + 1

\* C6 as amended: such a phase has made at least one poll and at most
\* floor(timeout / statusCheckFrequency) + 1; with overrun the time the phase
\* spent awaiting replies and late timers, it has made at least
\* floor((timeout - overrun) / statusCheckFrequency) + 1, hence exactly
\* floor(timeout / statusCheckFrequency) + 1 when replies and timers take no
\* extra time; and the phase has ended with its timeout failure.
C6_PollCount ==
    \A s \in Sessions :
        TimedOutPhase(ses[s]) =>
            /\ ses[s].polls >= 1
            /\ ses[s].polls <= (Budget(ses[s]) \div Interval) + 1
            /\ ses[s].polls >= ((Budget(ses[s]) - ses[s].overrun) \div Interval) + 1
            /\ ses[s].overrun = 0 => ses[s].polls = (Budget(ses[s]) \div Interval) + 1
            /\ now > ses[s].startTime + Budget(ses[s])

\* a wait-for-upgraded phase with no overrun has timed out after
\* floor(timeout / statusCheckFrequency) + 1 polls, more than two
C6_Witness ==
    \E s \in Sessions :
        /\ FailedWith(ses[s], MsgUpgradeTimeout)
        /\ ses[s].overrun = 0
        /\ ses[s].polls = (config.serviceUpgradedTimeout \div Interval) + 1
        /\ ses[s].polls > 2

-----------------------------------------------------------------------------
(* C7 *)

\* C7: whenever the then-callback of a call runs on a request that the API
\* client could not complete, the session ends in failure in that step
\* (so a failed finishupgrade never leads into the wait-for-active phase).
C7_TransportFailureFails ==
    [][\A s \in Sessions :
        (Handles(s) /\ ~ses[s].reply.ok) => Failed(ses'[s])
    ]_vars

-----------------------------------------------------------------------------
(* C8 *)

\* positions at which the query of a getService call is in flight
Lookups == {"fetch", "upgradePoll", "activePoll"}

\* C8: every call of getService (every entry of a lookup position) issues
\* exactly one GET and no GET is issued otherwise; a reply without a match
\* (rejected, no data, empty data) fails the session with the not-found
\* message and no further call, so a session whose first lookup finds no
\* service has issued no POST; and a reply with one or more matches makes
\* the caller act on the first match: waitForActive returns it when it is
\* active and waits otherwise, waitForUpgrade waits when it is upgrading,
\* inServiceUpgrade posts to its upgrade action.
C8_OneQueryFirstMatch ==
    [][\A s \in Sessions :
        /\ (ses'[s].pc \in Lookups /\ ses'[s].pc # ses[s].pc) =>
                ses'[s].calls.GET = ses[s].calls.GET + 1
        /\ (ses'[s].calls.GET # ses[s].calls.GET) =>
                /\ ses'[s].pc \in Lookups /\ ses'[s].pc # ses[s].pc
                /\ ses'[s].calls.GET = ses[s].calls.GET + 1
        /\ (ses[s].pc \in Lookups /\ Handles(s) /\ ~Found(ses[s].reply)) =>
                /\ FailedWith(ses'[s], MsgNotFound)
                /\ ses'[s].calls = ses[s].calls
                /\ ses[s].pc = "fetch" =>
                      ses'[s].calls = [GET |-> 1, upgrade |-> 0, finishupgrade |-> 0]
        /\ (ses[s].pc = "activePoll" /\ Handles(s) /\ Found(ses[s].reply)) =>
                IF First(ses[s].reply).state = "active"
                THEN Succeeded(ses'[s]) /\ ses'[s].outcome.value = First(ses[s].reply)
                ELSE ses'[s].pc = "activeDelay"
        /\ ( /\ ses[s].pc = "upgradePoll" /\ Handles(s) /\ Found(ses[s].reply)
             /\ First(ses[s].reply).state = "upgrading" ) =>
                ses'[s].pc = "upgradeDelay"
        /\ ( /\ ses[s].pc = "fetch" /\ Handles(s) /\ Found(ses[s].reply)
             /\ Has(First(ses[s].reply).actions, "upgrade") ) =>
                /\ ses'[s].pc = "submit"
                /\ ses'[s].sent[1].path = First(ses[s].reply).actions.upgrade
    ]_vars

\* a session has failed with not-found on its first lookup
C8_Witness ==
    \E s \in Sessions :
        /\ FailedWith(ses[s], MsgNotFound)
        /\ ses[s].calls = [GET |-> 1, upgrade |-> 0, finishupgrade |-> 0]

-----------------------------------------------------------------------------
(* C9 *)

\* C9: when the then-callback of the first lookup finds a service that is not
\* active and offers no upgrade action, the session fails with the
\* not-in-active-status message and no upgrade POST is issued; when the
\* service is not active but offers the upgrade action, one upgrade POST is
\* issued to that action with the body an active service would get.
C9_Precondition ==
    [][\A s \in Sessions :
        ( /\ ses[s].pc = "fetch" /\ Handles(s) /\ Found(ses[s].reply)
          /\ First(ses[s].reply).state # "active" ) =>
            LET svc == First(ses[s].reply) IN
            IF ~Has(svc.actions, "upgrade")
            THEN /\ FailedWith(ses'[s], MsgNotActive(svc.state))
                 /\ ses'[s].calls = ses[s].calls
                 /\ ses'[s].calls.upgrade = 0 /\ ses'[s].sent = <<>>
            ELSE /\ ses'[s].pc = "submit"
                 /\ ses'[s].calls.upgrade = 1
                 /\ ses'[s].sent =
                        <<[path |-> svc.actions.upgrade,
                           body |-> UpgradeParams([svc EXCEPT !.state = "active"],
                                                  ses[s].options)]>>
    ]_vars

\* a session has failed on a service that is upgrading and offers no upgrade
C9_Witness ==
    \E s \in Sessions :
        /\ FailedWith(ses[s], MsgNotActive("upgrading"))
        /\ ses[s].calls.upgrade = 0

-----------------------------------------------------------------------------
(* C10 *)

\* the image uuid of the upgrade POST that session r issued
SentImageUuid(r) == r.sent[1].body.inServiceStrategy.launchConfig.imageUuid

\* C10 as claimed: the imageUuid sent is "docker:" + imageRepo when the
\* request has no imageTag and "docker:" + imageRepo + ":" + imageTag when
\* it has one.
C10_Original ==
    \A s \in Sessions :
        Len(ses[s].sent) = 1 =>
            SentImageUuid(ses[s]) =
                IF Has(ses[s].request, "imageTag")
                THEN "docker:" \o ses[s].request.imageRepo \o ":" \o ses[s].request.imageTag
                ELSE "docker:" \o ses[s].request.imageRepo

\* C10 as amended: the imageUuid sent is "docker:" + imageRepo when the
\* request's imageTag is absent or the empty string, and
\* "docker:" + imageRepo + ":" + imageTag when it is a non-empty string.
C10_ImageUuid ==
    \A s \in Sessions :
        Len(ses[s].sent) = 1 =>
            SentImageUuid(ses[s]) =
                IF Has(ses[s].request, "imageTag") /\ ses[s].request.imageTag # ""
                THEN "docker:" \o ses[s].request.imageRepo \o ":" \o ses[s].request.imageTag
                ELSE "docker:" \o ses[s].request.imageRepo

\* an upgrade POST for repo org/app and tag v2 has been issued
C10_Witness ==
    \E s \in Sessions :
        /\ Len(ses[s].sent) = 1
        /\ Has(ses[s].request, "imageTag") /\ ses[s].request.imageTag = "v2"
        /\ SentImageUuid(ses[s]) = "docker:org/app:v2"

-----------------------------------------------------------------------------
(* C11 *)

\* the environment of the upgrade POST that session r issued
SentEnvironment(r) == r.sent[1].body.inServiceStrategy.launchConfig.environment

\* the environment the service has in the directory, {} when it has none
ExistingEnvironment ==
    IF Has(directory.launchConfig, "environment")
    THEN directory.launchConfig.environment ELSE EmptyObject

\* the environment of the request as passed, {} when it has none
RequestEnvironment(r) ==
    IF Has(r.request, "environment") THEN r.request.environment ELSE EmptyObject

\* C11: the launchConfig.environment sent in the upgrade POST has exactly the
\* keys of the service's existing environment and of the request's
\* environment; a key of the request's environment has the request's value,
\* a key only in the existing environment keeps its value; and a service
\* without an environment gets exactly the request's environment.
C11_EnvironmentMerged ==
    \A s \in Sessions :
        Len(ses[s].sent) = 1 =>
            LET env == SentEnvironment(ses[s])
                old == ExistingEnvironment
                new == RequestEnvironment(ses[s])
            IN  /\ DOMAIN env = DOMAIN old \cup DOMAIN new
                /\ \A k \in DOMAIN new : env[k] = new[k]
                /\ \A k \in DOMAIN old \ DOMAIN new : env[k] = old[k]
                /\ ~Has(directory.launchConfig, "environment") => env = new

\* existing {A:1, B:2} and request {B:3, C:4} were sent as {A:1, B:3, C:4}
C11_Witness ==
    \E s \in Sessions :
        /\ Len(ses[s].sent) = 1
        /\ ExistingEnvironment = [A |-> 1, B |-> 2]
        /\ RequestEnvironment(ses[s]) = [B |-> 3, C |-> 4]
        /\ SentEnvironment(ses[s]) = [A |-> 1, B |-> 3, C |-> 4]

-----------------------------------------------------------------------------
(* C12 *)

\* C12: a session that has not ended has no outcome; a session that has ended
\* has one outcome, a success whose value is a descriptor with state "active"
\* or a failure with one reason, and the session never changes afterwards, so
\* it issues no further call; and a session that ended in success has issued
\* its finishupgrade POST.
C12_OneTerminalOutcome ==
    [][\A s \in Sessions :
        /\ ses'[s].pc # "settled" => ses'[s].outcome = Pending
        /\ ses'[s].pc = "settled" =>
              \/ /\ ses'[s].outcome.status = "resolved"
                 /\ DOMAIN ses'[s].outcome = {"status", "value"}
                 /\ ses'[s].outcome.value.state = "active"
                 /\ ses'[s].calls.finishupgrade = 1
              \/ /\ ses'[s].outcome.status = "rejected"
                 /\ DOMAIN ses'[s].outcome = {"status", "reason"}
        /\ ses[s].pc = "settled" =>
              /\ ses'[s].outcome = ses[s].outcome
              /\ ses'[s].calls = ses[s].calls
              /\ ses'[s].pc = "settled"
    ]_vars

\* a session has ended in success after its finishupgrade POST and four lookups
C12_Witness ==
    \E s \in Sessions :
        /\ Succeeded(ses[s])
        /\ ses[s].outcome.value.state = "active"
        /\ ses[s].calls = [GET |-> 4, upgrade |-> 1, finishupgrade |-> 1]

-----------------------------------------------------------------------------
(* C13 *)

\* C13: the object the caller passed keeps the contents it was passed with
\* for as long as the session runs and after it.
C13_RequestImmutable ==
    \A s \in Sessions :
        ses[s].request # Undefined => ses[s].options = ses[s].request

-----------------------------------------------------------------------------
(* C14 *)

UpgradeWait == {"upgradePoll", "upgradeDelay"}
ActiveWait == {"activePoll", "activeDelay"}

\* C14: the wait-for-upgraded phase begins in the step that handles the reply
\* of the upgrade POST and its start time is the time of that step; the
\* wait-for-active phase begins in the step that handles the reply of the
\* finishupgrade POST, its start time is the time of that step, and it issues
\* its first poll whatever time the wait-for-upgraded phase has consumed; the
\* start time stays the same across all steps within a phase; and a phase
\* ends with its timeout message only when the current time is beyond its own
\* start time plus its own timeout.
C14_IndependentBudgets ==
    [][\A s \in Sessions :
        /\ (ses[s].pc = "submit" /\ ses'[s].pc \in UpgradeWait) =>
                ses'[s].startTime = now
        /\ (ses[s].pc = "finish" /\ Handles(s)) =>
                /\ ses'[s].pc = "activePoll"
                /\ ses'[s].startTime = now
                /\ ses'[s].calls.GET = ses[s].calls.GET + 1
        /\ (ses[s].pc \in UpgradeWait /\ ses'[s].pc \in UpgradeWait) =>
                ses'[s].startTime = ses[s].startTime
        /\ (ses[s].pc \in ActiveWait /\ ses'[s].pc \in ActiveWait) =>
                ses'[s].startTime = ses[s].startTime
        /\ (ses[s].pc \in UpgradeWait /\ FailedWith(ses'[s], MsgUpgradeTimeout)) =>
                now > ses[s].startTime + config.serviceUpgradedTimeout
        /\ (ses[s].pc \in ActiveWait /\ FailedWith(ses'[s], MsgActiveTimeout)) =>
                now > ses[s].startTime + config.serviceActiveTimeout
        /\ FailedWith(ses'[s], MsgUpgradeTimeout) => ses[s].pc \in UpgradeWait \cup {"settled"}
        /\ FailedWith(ses'[s], MsgActiveTimeout) => ses[s].pc \in ActiveWait \cup {"settled"}
    ]_vars

\* the wait-for-active phase began after more time than its whole timeout had
\* passed since the session started, and it is at its second poll or later
C14_Witness ==
    \E s \in Sessions :
        /\ ses[s].pc = "activePoll"
        /\ ses[s].polls >= 2
        /\ ses[s].startTime > 1 + config.serviceActiveTimeout
        /\ now > ses[s].startTime

-----------------------------------------------------------------------------
(* C15 *)

\* C15: in the wait-for-active phase, the step that handles a lookup whose
\* first match has a state other than "active" starts a DELAY of
\* statusCheckFrequency, issues no call and leaves the session without an
\* outcome, and the step that handles one with state "active" ends the
\* session in success with that descriptor; when the DELAY is over the
\* session polls again unless the phase has timed out; so the phase fails
\* only by timing out or when the lookup finds no service.
C15_ActivePhaseNeverFailsOnState ==
    [][\A s \in Sessions :
        /\ ( /\ ses[s].pc = "activePoll"
             /\ Handles(s)
             /\ Found(ses[s].reply) ) =>
                IF First(ses[s].reply).state = "active"
                THEN /\ Succeeded(ses'[s])
                     /\ ses'[s].outcome.value = First(ses[s].reply)
                ELSE /\ ses'[s].pc = "activeDelay"
                     /\ ses'[s].wakeAt = now + config.statusCheckFrequency
                     /\ ses'[s].outcome = Pending
                     /\ ses'[s].calls = ses[s].calls
        /\ (ses[s].pc = "activeDelay" /\ ses'[s].pc # "activeDelay") =>
                \/ /\ ses'[s].pc = "activePoll"
                   /\ ses'[s].calls.GET = ses[s].calls.GET + 1
                \/ FailedWith(ses'[s], MsgActiveTimeout)
        /\ (ses[s].pc \in {"activePoll", "activeDelay"} /\ Failed(ses'[s])) =>
                ses'[s].outcome.reason \in {MsgNotFound, MsgActiveTimeout}
    ]_vars

\* the wait-for-active phase has slept and polled again after a state other
\* than "active", and the reply of a later poll reports an unknown label
C15_Witness ==
    \E s \in Sessions :
        /\ ses[s].pc = "activePoll"
        /\ ses[s].polls >= 2
        /\ ses[s].reply.arrived
        /\ Found(ses[s].reply)
        /\ First(ses[s].reply).state = "rolling-back"

-----------------------------------------------------------------------------
(* C16 *)

\* the calls the session has issued, and whether one of them is in flight
TotalCalls(r) == r.calls.GET + r.calls.upgrade + r.calls.finishupgrade
InFlight(r) == r.pc \in Awaiting /\ ~r.reply.arrived

\* C16: a session issues at most one upgrade POST and at most one
\* finishupgrade POST; a step that issues a GET is either the first step of
\* the session (the initial fetch, issued once) or a step that polls in one
\* of the two wait phases; a step issues at most one call, and only when no
\* call of the session is in flight, and that call is then the one in flight.
C16_NoRetryOneInFlight ==
    [][\A s \in Sessions :
        /\ ses'[s].calls.upgrade <= 1
        /\ ses'[s].calls.finishupgrade <= 1
        /\ ses'[s].pc = "start" => ses[s].pc = "start"
        /\ ses'[s].pc = "fetch" => ses'[s].calls.GET = 1
        /\ ses'[s].calls.GET # ses[s].calls.GET =>
              \/ ses[s].pc = "start" /\ ses'[s].pc = "fetch"
              \/ ses'[s].pc \in {"upgradePoll", "activePoll"}
        /\ ses'[s].calls.upgrade # ses[s].calls.upgrade =>
              ses[s].pc = "fetch" /\ ses'[s].pc = "submit"
        /\ ses'[s].calls.finishupgrade # ses[s].calls.finishupgrade =>
              ses[s].pc = "upgradePoll" /\ ses'[s].pc = "finish"
        /\ TotalCalls(ses'[s]) \in {TotalCalls(ses[s]), TotalCalls(ses[s]) + 1}
        /\ TotalCalls(ses'[s]) # TotalCalls(ses[s]) =>
              /\ ~InFlight(ses[s])
              /\ InFlight(ses'[s])
        /\ InFlight(ses[s]) => ses'[s].calls = ses[s].calls
    ]_vars

\* a session that polled in both wait phases has issued one upgrade POST and
\* one finishupgrade POST, and a poll of it is in flight
C16_Witness ==
    \E s \in Sessions :
        /\ ses[s].calls.GET >= 5
        /\ ses[s].calls.upgrade = 1
        /\ ses[s].calls.finishupgrade = 1
        /\ ses[s].polls >= 2
        /\ InFlight(ses[s])

-----------------------------------------------------------------------------
(* C17 *)

\* the program under every configuration, called late enough that a reply is
\* at most one unit of time late, when every request in flight completes,
\* every timer fires, the clock goes on and the event loop runs every callback
\* that is ready: a step is taken as long as one is possible
InitLive ==
    /\ now = MaxTime - 1
    /\ config \in Configs
    /\ directory = [launchConfig |-> [imageUuid |-> "docker:org/app:v1"],
                    secondaryLaunchConfigs |-> <<>>]
    /\ \E arg \in {EmptyObject, WebRequest} : ses = (1 :> NewSession(arg))

SpecLive == InitLive /\ [][Next]_vars /\ WF_vars(Next)

\* C17: every session ends, in success or in failure, whatever states the
\* lookups report.
C17_Terminates == <>[](\A s \in Sessions : ses[s].pc = "settled")

\* a session whose service never left "upgrading" has ended with the timeout
\* of the wait-for-upgraded phase after three polls or more
C17_Witness ==
    \E s \in Sessions :
        /\ ses[s].pc = "settled"
        /\ ses[s].outcome = Rejected(MsgUpgradeTimeout)
        /\ ses[s].calls = [GET |-> 1 + ses[s].polls, upgrade |-> 1, finishupgrade |-> 0]
        /\ ses[s].polls >= 3

-----------------------------------------------------------------------------
(* C18 *)

\* the inServiceStrategy of the upgrade POST
SentStrategy(r) == r.sent[1].body.inServiceStrategy

\* the value of key k the request supplies, dflt when the key is absent
Supplied(request, k, dflt) == IF Has(request, k) THEN request[k] ELSE dflt

\* C18: the upgrade POST carries for batchSize, intervalMillis and startFirst
\* the value of the request as passed when the key is present (0 and false
\* included) and 1, 30000 and true when the key is absent, and it carries
\* the secondaryLaunchConfigs of the fetched descriptor as they are.
C18_StrategyPassThrough ==
    \A s \in Sessions :
        Len(ses[s].sent) = 1 =>
            /\ SentStrategy(ses[s]).batchSize = Supplied(ses[s].request, "batchSize", 1)
            /\ SentStrategy(ses[s]).intervalMillis = Supplied(ses[s].request, "intervalMillis", 30000)
            /\ SentStrategy(ses[s]).startFirst = Supplied(ses[s].request, "startFirst", TRUE)
            /\ SentStrategy(ses[s]).secondaryLaunchConfigs = directory.secondaryLaunchConfigs
            /\ DOMAIN SentStrategy(ses[s]) =
                  {"batchSize", "intervalMillis", "startFirst", "launchConfig", "secondaryLaunchConfigs"}

\* an upgrade POST was issued for a request with batchSize 0, intervalMillis
\* 0 and startFirst false and a service with a secondary launch config
C18_Witness ==
    \E s \in Sessions :
        /\ Len(ses[s].sent) = 1
        /\ Has(ses[s].request, "batchSize") /\ ses[s].request.batchSize = 0
        /\ Has(ses[s].request, "intervalMillis") /\ ses[s].request.intervalMillis = 0
        /\ Has(ses[s].request, "startFirst") /\ ses[s].request.startFirst = FALSE
        /\ SentStrategy(ses[s]).batchSize = 0
        /\ SentStrategy(ses[s]).startFirst = FALSE
        /\ SentStrategy(ses[s]).secondaryLaunchConfigs = <<[imageUuid |-> "docker:org/sidekick:v1"]>>

-----------------------------------------------------------------------------
(* C19 *)

\* two calls of inServiceUpgrade for the same service name on one RancherAPI
\* object, under one configuration, the clock at MaxTime when they are made
InitTwo ==
    /\ now = MaxTime
    /\ config = [statusCheckFrequency |-> 1, serviceUpgradedTimeout |-> 1, serviceActiveTimeout |-> 1]
    /\ directory = [launchConfig |-> [imageUuid |-> "docker:org/app:v1"],
                    secondaryLaunchConfigs |-> <<>>]
    /\ ses = (1 :> NewSession(WebRequest)) @@ (2 :> NewSession(WebRequest))

SpecTwo == InitTwo /\ [][Next]_vars

\* what the program keeps for a session, without the bookkeeping of waiting time
Core(r) == [r EXCEPT !.overrun = 0]

\* C19: with two sessions for the same service name, a step that changes
\* what the program keeps for one session changes nothing of the other; the
\* phase start time of a session changes only in the step in which that
\* session itself enters a wait phase, and it becomes the time of that step;
\* and a session times out only against its own start time.
C19_SessionsIndependent ==
    [][\A s \in Sessions :
        /\ \A t \in Sessions \ {s} :
              Core(ses'[s]) # Core(ses[s]) => Core(ses'[t]) = Core(ses[t])
        /\ ses'[s].startTime # ses[s].startTime =>
              /\ ses[s].pc \in {"submit", "finish"}
              /\ Handles(s)
              /\ ses'[s].startTime = now
        /\ (ses[s].pc = "upgradeDelay" /\ FailedWith(ses'[s], MsgUpgradeTimeout)) =>
              now > ses[s].startTime + config.serviceUpgradedTimeout
        /\ (ses[s].pc = "upgradeDelay" /\ ses'[s].pc = "upgradePoll") =>
              now <= ses[s].startTime + config.serviceUpgradedTimeout
        /\ (ses[s].pc = "activeDelay" /\ FailedWith(ses'[s], MsgActiveTimeout)) =>
              now > ses[s].startTime + config.serviceActiveTimeout
        /\ (ses[s].pc = "activeDelay" /\ ses'[s].pc = "activePoll") =>
              now <= ses[s].startTime + config.serviceActiveTimeout
    ]_vars

\* both sessions fetched the service as "active" and each has submitted its
\* upgrade POST; the two POSTs are in flight together
C19_Witness ==
    /\ Cardinality(Sessions) = 2
    /\ \A s \in Sessions :
          /\ ses[s].pc = "submit"
          /\ ~ses[s].reply.arrived
          /\ ses[s].calls = [GET |-> 1, upgrade |-> 1, finishupgrade |-> 0]
          /\ Len(ses[s].sent) = 1

-----------------------------------------------------------------------------
(* C20 *)

\* C20: every upgrade POST goes to the upgrade action of the descriptor the
\* initial fetch returned; the step that handles an initial fetch whose first
\* match offers no upgrade action, whatever its state, ends the session in
\* failure and issues no call, so the session issues no POST and never
\* enters the wait-for-upgraded phase.
C20_NoUpgradeWithoutAction ==
    [][\A s \in Sessions :
        /\ ( /\ ses[s].pc = "fetch"
             /\ Handles(s)
             /\ Found(ses[s].reply)
             /\ ~Has(First(ses[s].reply).actions, "upgrade") ) =>
                /\ Failed(ses'[s])
                /\ ses'[s].calls = [GET |-> 1, upgrade |-> 0, finishupgrade |-> 0]
                /\ ses'[s].sent = <<>>
                /\ First(ses[s].reply).state = "active" =>
                      ses'[s].outcome.reason = TypeError
                /\ First(ses[s].reply).state # "active" =>
                      ses'[s].outcome.reason = MsgNotActive(First(ses[s].reply).state)
        /\ ses'[s].sent # ses[s].sent =>
                /\ ses[s].pc = "fetch"
                /\ Found(ses[s].reply)
                /\ Has(First(ses[s].reply).actions, "upgrade")
                /\ ses'[s].sent = <<[path |-> First(ses[s].reply).actions.upgrade,
                                     body |-> UpgradeParams(First(ses[s].reply), ses[s].options)]>>
    ]_vars

\* a session whose initial fetch returned an active service without the
\* upgrade action has failed with the TypeError after its one GET
C20_Witness ==
    \E s \in Sessions :
        /\ FailedWith(ses[s], TypeError)
        /\ ses[s].calls = [GET |-> 1, upgrade |-> 0, finishupgrade |-> 0]
        /\ ses[s].sent = <<>>

====
